---- MODULE Spec2Model ----
(***************************************************************************)
(* Asynchronous task distribution over Redis Streams: TaskStore (Redis     *)
(* hashes with a TTL), TaskProducer.submit, TaskConsumer (consumer group,  *)
(* one poll cycle at a time) and the BaseWorker lifecycle helpers as the   *)
(* three registered workers use them.                                      *)
(*                                                                         *)
(* One step of the model is one Redis round trip (one await) of one        *)
(* coroutine.  TaskStore.create and TaskStore.update issue HSET and then   *)
(* EXPIRE; the pair is one step with three outcomes: both commands ran,    *)
(* the connection failed before HSET, or it failed between HSET and        *)
(* EXPIRE.  Every Redis call may fail while the fault budget lasts.        *)
(***************************************************************************)
EXTENDS Integers, Sequences, FiniteSets, TLC

\* ---------------------------------------------------------------- bounds
\* calls that fail in one behaviour: Redis calls (connection errors) and the
\* collaborator calls of the workers
MaxFaults == 1
\* ticks of the model's clock in one behaviour (one tick is 1800 s)
MaxTicks == 2
\* store.py TaskStore.DEFAULT_TTL: 3600 s, in ticks of the model's clock
DEFAULT_TTL == 2

\* ------------------------------------------------------------ value sets
TaskIds == {"t1", "t2"}
\* the calls of TaskProducer.submit made by request handlers, each made once
Requests == {"r1", "r2"}
\* the worker processes
Consumers == {"c1", "c2"}

\* models.py: the members of the TaskType enum
TaskType == {"hex", "job"}
\* registry.py: the keys of WORKER_REGISTRY once app.tasks.workers is imported,
\* in registration (import) order
WORKER_REGISTRY == <<"hex", "job", "ocr">>
RegisteredTypes == {WORKER_REGISTRY[i] : i \in 1..Len(WORKER_REGISTRY)}

\* models.py: the values of the TaskStatus enum
PENDING == "pending"
RUNNING == "running"
COMPLETED == "completed"
FAILED == "failed"

\* Python's None, and a hash field that was never written
NoneVal == "<None>"
Absent == "<absent>"
\* a key with no expiry set (TTL -1)
NoTtl == -1
\* a key no HSET was ever made on
Untouched == -1
\* no call was made to TaskStore from outside producer and workers
NoCall == [op |-> "none"]

\* the fields of the Redis hash of a task
Fields == {"task_id", "task_type", "status", "progress", "payload", "result",
           "error", "created_at", "started_at", "completed_at"}

\* the result dictionary a worker builds (never empty: message + data)
WorkerResult == "result"
\* str(e) of what a collaborator raises: some text, or none (e.g. TimeoutError())
CollabErrors == {"", "collaborator error"}
\* str(e) of a failed Redis call
RedisError == "redis connection error"
\* datetime.utcnow().isoformat() of a worker's stamp
Stamp == "ts"

\* ------------------------------------------------------------- encodings
\* json.dumps of a dictionary, as the JSON text
JsonDumps(d) == "json:" \o d
\* json.loads of a JSON text written by JsonDumps
JsonLoads(s) ==
  CASE s = "json:p1" -> "p1"
    [] s = "json:p2" -> "p2"
    [] s = "json:result" -> "result"
    [] s = "json:{}" -> "{}"
\* whether json.loads accepts the text (it raises JSONDecodeError otherwise)
JsonParses(s) == s \in {"json:p1", "json:p2", "json:result", "json:{}"}

\* store.py update(): how one keyword argument is written to the hash.
\* A Python value is <<kind, value>>.
EncodeArg(pv) ==
  CASE pv[1] = "datetime" -> pv[2]
    [] pv[1] = "dict" -> JsonDumps(pv[2])
    [] pv[1] = "enum" -> pv[2]
    [] OTHER -> pv[2]

\* the Python value None as a keyword argument
PyNone == <<"none", NoneVal>>

\* a key that does not exist in Redis: a hash with no field
NoKey == [f \in Fields |-> Absent]

\* (mutant) the hash is replaced by the mapping: DEL, then HSET
HSetReplace(h, m) == [f \in Fields |-> IF f \in DOMAIN m THEN m[f] ELSE Absent]
\* (mutant) HSETNX for each field: a field that exists keeps its value
HSetNx(h, m) ==
  [f \in Fields |-> IF f \in DOMAIN m /\ h[f] = Absent THEN m[f] ELSE h[f]]
\* Redis HSET key mapping=m: creates the hash when the key is missing
HSet(h, m) == [f \in Fields |-> IF f \in DOMAIN m THEN m[f] ELSE h[f]]

\* (mutant) _serialize leaves the status out of the mapping
SerializeNoStatus(task_id, task_type, payload, created_at) ==
  [f \in Fields \ {"status"} |->
     CASE f = "task_id" -> task_id
       [] f = "task_type" -> task_type
       [] f = "payload" -> JsonDumps(payload)
       [] f = "created_at" -> created_at
       [] OTHER -> ""]
\* store.py _serialize of the record create() builds
Serialize(task_id, task_type, payload, created_at) ==
  [f \in Fields |->
     CASE f = "task_id" -> task_id
       [] f = "task_type" -> task_type
       [] f = "status" -> PENDING
       [] f = "payload" -> JsonDumps(payload)
       [] f = "created_at" -> created_at
       [] OTHER -> ""]

\* dict.get(f): None for a missing field
HashGet(h, f) == IF h[f] = Absent THEN NoneVal ELSE h[f]
\* Python truthiness of dict.get(f)
Truthy(h, f) == h[f] # Absent /\ h[f] # ""

\* store.py _deserialize: raises KeyError when a subscripted field is missing,
\* ValueError when TaskType(...), TaskStatus(...) or datetime.fromisoformat(...)
\* rejects the text of a field
DeserializeRaises(h) ==
  \/ \E f \in {"task_id", "task_type", "status", "created_at"} : h[f] = Absent
  \/ h["task_type"] \notin TaskType
  \/ h["status"] \notin {PENDING, RUNNING, COMPLETED, FAILED}
  \/ h["created_at"] = ""
Deserialize(h) ==
  [task_id |-> h["task_id"],
   task_type |-> h["task_type"],
   status |-> h["status"],
   progress |-> IF Truthy(h, "progress") THEN h["progress"] ELSE NoneVal,
   payload |-> IF Truthy(h, "payload") THEN JsonLoads(h["payload"]) ELSE "{}",
   result |-> IF Truthy(h, "result") THEN JsonLoads(h["result"]) ELSE NoneVal,
   error |-> IF Truthy(h, "error") THEN h["error"] ELSE NoneVal,
   created_at |-> h["created_at"],
   started_at |-> IF Truthy(h, "started_at") THEN h["started_at"] ELSE NoneVal,
   completed_at |-> IF Truthy(h, "completed_at") THEN h["completed_at"] ELSE NoneVal]

\* ----------------------------------------------------------------- state
VARIABLES
  store,     \* Redis: task:<id> -> the hash of the task, or NoKey
  ttl,       \* Redis: task:<id> -> ticks left before the key expires, or NoTtl
  stream,    \* Redis: tasks:<type> -> the entries appended by XADD, in order
  grp,       \* Redis: tasks:<type> -> whether the consumer group exists
  last,      \* Redis: tasks:<type> -> how many entries the group was delivered
  pel,       \* Redis: the group's pending entries, <<entry id, consumer>>
  req,       \* per request: the task_id and task_type it submits
  prod,      \* per request: where it is in TaskProducer.submit
  cons,      \* per worker process: where it is in TaskConsumer.run, the
             \* reply it is working through, its _running flag, and
             \* whether stop() was called on it (history)
  faults,    \* Redis calls that failed so far
  ticks,     \* ticks of the clock so far
  hist,      \* per entry id: what has happened to the message (history):
             \* stored: a create() had written its record when it was appended;
             \* recv: deliveries; begun: _process_message entered; runs: calls
             \* of worker.run; marks: calls of mark_completed and mark_failed;
             \* limit: retry_after_seconds of the rate-limit error its run hit;
             \* acks: XACKs that removed it; out: how run() ended; fin: how
             \* _process_message ended
  created,   \* task ids a create() has written a record for (history)
  served,    \* the task_types argument of TaskConsumer.run, in order
  idle,      \* Redis: task:<id> -> ticks since the last HSET on the key, or
             \* Untouched (history)
  api        \* the call a caller other than producer and workers made to
             \* TaskStore since the clock last advanced, if any (history); a
             \* call equal to it made again before the next tick has the
             \* same effect on the same state

vars == <<store, ttl, stream, grp, last, pel, req, prod, cons, faults, ticks,
          hist, created, served, idle, api>>

\* a task type name with no registered worker (run_worker.py --types takes any)
UnregisteredType == "zzz"
\* the names of the streams tasks:<type>
Streams == RegisteredTypes \cup TaskType \cup {UnregisteredType}

\* the entries of all streams
Entries == UNION {{stream[s][k] : k \in 1..Len(stream[s])} : s \in Streams}
\* the id XADD gives the next entry (ids grow with every append)
NextEntryId == Cardinality(Entries) + 1

\* the outcomes of a Redis call: it may fail while the fault budget lasts
CanFault == faults < MaxFaults

\* store.py get(): not-found for a missing key, else the deserialized record
NotFound == [status |-> "<not-found>"]
GetRaises == [status |-> "<raises>"]
Get(t) ==
  IF store[t] = NoKey THEN NotFound
  ELSE IF DeserializeRaises(store[t]) THEN GetRaises
  ELSE Deserialize(store[t])

\* the payload dictionary of a request; the code never looks into a payload
\* outside the worker, so one distinct payload per request stands for all
PayloadOf(r) == IF r = "r1" THEN "p1" ELSE "p2"
\* datetime.utcnow().isoformat() as read by create() in a request
CreatedAt(r) == IF r = "r1" THEN "ts-r1" ELSE "ts-r2"

\* the arguments of the requests: task_id is explicit or a fresh uuid4, so
\* two requests may carry the same id or different ones (ids are
\* interchangeable: the first request's is called t1)
RequestArgs ==
  {a \in [Requests -> [task_id : TaskIds, task_type : TaskType]] :
     a["r1"].task_id = "t1"}

Init ==
  /\ store = [t \in TaskIds |-> NoKey]
  /\ ttl = [t \in TaskIds |-> NoTtl]
  /\ stream = [s \in Streams |-> <<>>]
  /\ grp = [s \in Streams |-> FALSE]
  /\ last = [s \in Streams |-> 0]
  /\ pel = {}
  /\ req \in RequestArgs
  /\ prod = [r \in Requests |-> "new"]
  /\ cons = [c \in Consumers |->
               [pc |-> "groups", batch |-> <<>>, i |-> 0, err |-> "",
                running |-> FALSE, asked |-> FALSE]]
  /\ faults = 0
  /\ ticks = 0
  /\ hist = <<>>
  /\ created = {}
  /\ served = WORKER_REGISTRY
  /\ idle = [t \in TaskIds |-> Untouched]
  /\ api = NoCall

\* -------------------------------------------------------------- TaskStore
\* HSET then EXPIRE on task:<t>.  how = "ok": both ran; "between": HSET ran and
\* EXPIRE did not; "before": neither ran.
StoreWrite(t, m, how) ==
  /\ store' = IF how = "before" THEN store
              ELSE [store EXCEPT ![t] = HSet(store[t], m)]
  /\ ttl' = IF how = "ok" THEN [ttl EXCEPT ![t] = DEFAULT_TTL] ELSE ttl
  /\ faults' = IF how = "ok" THEN faults ELSE faults + 1
  /\ idle' = IF how = "before" THEN idle ELSE [idle EXCEPT ![t] = 0]

Hows == IF CanFault THEN {"ok", "before", "between"} ELSE {"ok"}

\* store.py update(): keyword arguments that are None are skipped
UpdateMapping(kwargs) ==
  [f \in {g \in DOMAIN kwargs : kwargs[g] # PyNone} |-> EncodeArg(kwargs[f])]

\* (mutant) mark_running also stamps created_at
MarkRunningArgsRestamp ==
  [status |-> <<"enum", RUNNING>>, started_at |-> <<"datetime", Stamp>>,
   created_at |-> <<"datetime", Stamp>>]
\* base.py: the keyword arguments of the lifecycle helpers
MarkRunningArgs ==
  [status |-> <<"enum", RUNNING>>, started_at |-> <<"datetime", Stamp>>]
MarkCompletedArgs(result) ==
  [status |-> <<"enum", COMPLETED>>, result |-> <<"dict", result>>,
   progress |-> <<"str", "done">>, completed_at |-> <<"datetime", Stamp>>]
MarkFailedArgs(error) ==
  [status |-> <<"enum", FAILED>>, error |-> <<"str", error>>,
   completed_at |-> <<"datetime", Stamp>>]
UpdateProgressArgs(progress) == [progress |-> <<"str", progress>>]

\* the clock advances one tick; Redis deletes the keys whose TTL has run out
Tick ==
  /\ ticks < MaxTicks
  /\ \E t \in TaskIds : store[t] # NoKey
  /\ ticks' = ticks + 1
  /\ idle' = [t \in TaskIds |->
                IF idle[t] = Untouched THEN Untouched ELSE idle[t] + 1]
  /\ LET gone == {t \in TaskIds : store[t] # NoKey /\ ttl[t] = 1}
     IN /\ store' = [t \in TaskIds |-> IF t \in gone THEN NoKey ELSE store[t]]
        /\ ttl' = [t \in TaskIds |->
                     IF t \in gone THEN NoTtl
                     ELSE IF ttl[t] > 0 THEN ttl[t] - 1 ELSE ttl[t]]
  /\ api' = NoCall
  /\ UNCHANGED <<stream, grp, last, pel, req, prod, cons, faults, hist, served,
                 created>>

\* ----------------------------------------------------------- TaskProducer
\* (mutant) the message is appended before the record is stored
SubmitOrderXaddFirst == <<"xadd", "create">>
\* producer.py submit(): the Redis steps in the order the code makes them
SubmitOrder == <<"create", "xadd">>

\* where submit() goes after the step it is at succeeded: the next step, or it
\* returns the record
AfterStep(pc) ==
  LET k == CHOOSE j \in 1..Len(SubmitOrder) : SubmitOrder[j] = pc
  IN IF k < Len(SubmitOrder) THEN SubmitOrder[k + 1] ELSE "returned"

\* the handler's argument TaskType.<NAME> evaluates: the enum has the member
\* (routers/ocr.py names TaskType.OCR, which raises AttributeError)
TaskTypeMember(ty) == ty \in TaskType

\* a request handler calls submit(task_type, payload, task_id).  Requests are
\* interchangeable: the one that calls first is called r1.  A handler that
\* names a missing member of TaskType raises before it calls submit.
SubmitCall(r) ==
  /\ prod[r] = "new"
  /\ r = "r1" \/ prod["r1"] # "new"
  /\ prod' = [prod EXCEPT ![r] =
                IF TaskTypeMember(req[r].task_type) THEN SubmitOrder[1]
                ELSE "raised"]
  /\ UNCHANGED <<idle, api, store, ttl, stream, grp, last, pel, req, cons, faults, hist,
                 served, ticks, created>>

\* store.create(): HSET of the serialized pending record, then EXPIRE
SubmitCreate(r) ==
  /\ prod[r] = "create"
  /\ \E how \in Hows :
       /\ StoreWrite(req[r].task_id,
                     Serialize(req[r].task_id, req[r].task_type, PayloadOf(r),
                               CreatedAt(r)), how)
       /\ prod' = [prod EXCEPT ![r] =
                     IF how = "ok" THEN AfterStep("create") ELSE "raised"]
       /\ created' = IF how = "before" THEN created
                     ELSE created \cup {req[r].task_id}
  /\ UNCHANGED <<api, stream, grp, last, pel, req, cons, hist, served, ticks>>

\* (mutant) submit() undoes its create() when the append fails
OnXaddErrorDelete(t) == [store EXCEPT ![t] = NoKey]
\* submit(): the store after xadd raised: no except clause, nothing is undone
OnXaddError(t) == store

\* redis.xadd(tasks:<type>, {task_id, payload}); an error leaves submit()
\* (prod = "xadd_raised"): nothing catches it, retries or undoes the create
SubmitXadd(r) ==
  /\ prod[r] = "xadd"
  /\ \/ /\ stream' = [stream EXCEPT ![req[r].task_type] =
                        Append(@, [id |-> NextEntryId,
                                   task_id |-> req[r].task_id,
                                   payload |-> JsonDumps(PayloadOf(r))])]
        /\ hist' = Append(hist, [stored |-> req[r].task_id \in created,
                                 recv |-> 0, begun |-> FALSE, runs |-> 0,
                                 marks |-> 0, limit |-> 0, acks |-> 0,
                                 out |-> "none", fin |-> "none"])
        /\ prod' = [prod EXCEPT ![r] = AfterStep("xadd")]
        /\ UNCHANGED <<faults, store>>
     \/ /\ CanFault
        /\ faults' = faults + 1
        /\ prod' = [prod EXCEPT ![r] = "xadd_raised"]
        /\ store' = OnXaddError(req[r].task_id)
        /\ UNCHANGED <<stream, hist>>
  /\ UNCHANGED <<idle, api, ttl, grp, last, pel, req, cons, served, ticks, created>>

\* ----------------------------------------------------------- TaskConsumer
\* the progress labels of each worker's run(), in order, with the language
\* model step enabled (the default of the payload's options); a collaborator
\* call or a computation that may raise follows each label
Labels(ty) ==
  CASE ty = "hex" -> <<"collecting_github", "calculating_scores", "calling_llm">>
    [] ty = "job" -> <<"building_search_query", "searching_web",
                       "calculating_confidence", "calling_llm">>
    [] ty = "ocr" -> <<"validating_input", "building_messages", "calling_ocr",
                       "postprocessing">>

\* registry.py get_worker(): KeyError for a type that is not registered
GetWorkerRaises(ty) == ty \notin RegisteredTypes

\* the message a consumer is processing: the head of its batch
Msg(c) == cons[c].batch[1]
MsgTask(c) == Msg(c).entry.task_id
MsgId(c) == Msg(c).entry.id

\* (mutant) XGROUP CREATE ... id="$": the new group starts after the last entry
GroupStartAtEnd(ty) == Len(stream[ty])
\* XGROUP CREATE ... id="0": the new group starts before the first entry of
\* the stream, so the entries already appended count as never delivered
GroupStart(ty) == 0

\* (mutant) XGROUP SETID after a refused create: the group starts over
XGroupCreateReset(ty) == GroupStart(ty)
\* XGROUP CREATE on tasks:<ty>: the last-delivered position of the group
\* after the call; a group that exists is left as it is (BUSYGROUP)
XGroupCreate(ty) == IF grp[ty] THEN last[ty] ELSE GroupStart(ty)

\* _ensure_consumer_groups: XGROUP CREATE tasks:<type> group id=0 MKSTREAM for
\* each configured type in turn; BUSYGROUP is swallowed, any other error
\* leaves run().  The calls of one consumer are one step: a create changes
\* nothing when the group exists, so their interleaving cannot be observed.
\* k is the number of calls that succeed.
EnsureGroups(c) ==
  /\ cons[c].pc = "groups"
  /\ c = "c1" \/ cons["c1"].pc # "groups"
  /\ \E k \in (IF CanFault THEN 0..Len(served) ELSE {Len(served)}) :
       LET made == {served[j] : j \in 1..k}
       IN /\ grp' = [ty \in Streams |-> grp[ty] \/ ty \in made]
          /\ last' = [ty \in Streams |->
                        IF ty \in made THEN XGroupCreate(ty) ELSE last[ty]]
          /\ cons' = [cons EXCEPT ![c] =
                        IF k = Len(served)
                        THEN [@ EXCEPT !.pc = "poll", !.running = TRUE]
                        ELSE [@ EXCEPT !.pc = "dead"]]
          /\ faults' = IF k = Len(served) THEN faults ELSE faults + 1
  /\ UNCHANGED <<idle, api, store, ttl, stream, pel, req, prod, hist, served, ticks, created>>

\* (mutant) XREADGROUP ... STREAMS ... 0: the entries are read from the start
\* of each stream again, delivered or not
XReadGroupFromStart(types, n) ==
  LET ready == SelectSeq(types, LAMBDA ty : Len(stream[ty]) > 0)
  IN [k \in 1..Len(ready) |->
        [stream |-> ready[k],
         entries |-> SubSeq(stream[ready[k]], 1,
                            IF Len(stream[ready[k]]) < n
                            THEN Len(stream[ready[k]]) ELSE n)]]
\* XREADGROUP group consumer COUNT n STREAMS ... > : for each stream, in the
\* order asked, up to n entries the group was never delivered
XReadGroup(types, n) ==
  LET ready == SelectSeq(types, LAMBDA ty : Len(stream[ty]) > last[ty])
  IN [k \in 1..Len(ready) |->
        [stream |-> ready[k],
         entries |-> SubSeq(stream[ready[k]], last[ready[k]] + 1,
                            IF Len(stream[ready[k]]) < last[ready[k]] + n
                            THEN Len(stream[ready[k]]) ELSE last[ready[k]] + n)]]

\* _consume_once: the nested loops over the reply, flattened in their order
RECURSIVE Flatten(_)
Flatten(reply) ==
  IF reply = <<>> THEN <<>>
  ELSE [k \in 1..Len(reply[1].entries) |->
          [stream |-> reply[1].stream, entry |-> reply[1].entries[k]]]
       \o Flatten(Tail(reply))

\* (mutant) a read that does not move the group's last-delivered position
DeliveredStale(ty, reply) == last[ty]
\* the group's last-delivered position of a stream after a read
Delivered(ty, reply) ==
  LET hit == {k \in 1..Len(reply) : reply[k].stream = ty}
  IN IF hit = {} THEN last[ty]
     ELSE last[ty] + Len(reply[CHOOSE k \in hit : TRUE].entries)

\* _process_message up to its first await: json.loads of the payload, then
\* get_worker; either may raise, which the except clause logs, and the next
\* await is then the XACK of the finally clause; else it is mark_running's
Resolved(m) == JsonParses(m.entry.payload) /\ ~GetWorkerRaises(m.stream)
\* (mutant) run() starts with its try block: mark_running is never called
BeginInTry(r, batch) ==
  [r EXCEPT !.batch = batch,
            !.pc = IF Resolved(batch[1]) THEN "work" ELSE "ack",
            !.i = IF Resolved(batch[1]) THEN 1 ELSE 0]
Begin(r, batch) ==
  [r EXCEPT !.batch = batch,
            !.pc = IF Resolved(batch[1]) THEN "mark_running" ELSE "ack"]
BeginHist(h, m) ==
  [h EXCEPT ![m.entry.id] =
     IF Resolved(m) THEN [@ EXCEPT !.begun = TRUE, !.runs = @ + 1]
     ELSE [@ EXCEPT !.begun = TRUE, !.out = "unresolved"]]

\* (mutant) the loop of run() ends with the cycle, whatever _running is
LoopBreak(r) == [r EXCEPT !.batch = <<>>, !.pc = "stopped"]
\* run(): _consume_once has returned, or raised an error that was caught and
\* slept on: the loop goes on while _running is set, else run() returns
Loop(r) ==
  [r EXCEPT !.batch = <<>>, !.pc = IF r.running THEN "poll" ELSE "stopped"]

\* _consume_once: one XREADGROUP with count=1 over the served streams; an
\* empty reply (block timeout) ends the cycle; an error is caught by run()'s
\* loop, which sleeps and polls again.  pc = "poll" is the await of the read:
\* the loop condition was read before it and is read again after the cycle.
Poll(c) ==
  /\ cons[c].pc = "poll"
  /\ c = "c1" \/ cons["c1"].pc # "poll"
  /\ \/ LET reply == XReadGroup(served, 1)
            batch == Flatten(reply)
            got == {batch[k].entry.id : k \in 1..Len(batch)}
            recv == [id \in DOMAIN hist |->
                       IF id \in got THEN [hist[id] EXCEPT !.recv = @ + 1]
                       ELSE hist[id]]
        IN /\ batch # <<>>
           /\ last' = [ty \in Streams |-> Delivered(ty, reply)]
           /\ pel' = pel \cup {<<id, c>> : id \in got}
           /\ hist' = BeginHist(recv, batch[1])
           /\ cons' = [cons EXCEPT ![c] = Begin(@, batch)]
           /\ UNCHANGED faults
     \/ /\ CanFault
        /\ faults' = faults + 1
        /\ cons' = [cons EXCEPT ![c] = Loop(@)]
        /\ UNCHANGED <<last, pel, hist>>
     \/ /\ XReadGroup(served, 1) = <<>>
        /\ ~cons[c].running
        /\ cons' = [cons EXCEPT ![c] = Loop(@)]
        /\ UNCHANGED <<last, pel, hist, faults>>
  /\ UNCHANGED <<idle, api, store, ttl, stream, grp, req, prod, served, ticks, created>>

\* _process_message: worker.run() returned; the finally clause is next
Returned(r) == [r EXCEPT !.pc = "ack", !.i = 0, !.err = ""]
\* (mutant) the XACK is made after worker.run() in the try block, not in a
\* finally clause: an exception skips it
RaisedNoAck(r) == [r EXCEPT !.pc = "poll", !.batch = <<>>, !.i = 0, !.err = ""]
\* _process_message: worker.run() raised; the except clause logs the error
\* and the finally clause is next
Raised(r) == [r EXCEPT !.pc = "ack", !.i = 0, !.err = ""]
\* the except clause of worker.run() is entered with the exception's str()
Except(r, e) == [r EXCEPT !.pc = "mark_failed", !.i = 0, !.err = e]

\* worker.run(): mark_running(), before the try block
MarkRunning(c) ==
  /\ cons[c].pc = "mark_running"
  /\ \E how \in Hows :
       /\ StoreWrite(MsgTask(c), UpdateMapping(MarkRunningArgs), how)
       /\ cons' = [cons EXCEPT ![c] =
                     IF how = "ok" THEN [@ EXCEPT !.pc = "work", !.i = 1]
                     ELSE Raised(@)]
       /\ hist' = CASE how = "ok" -> hist
                    [] how = "before" -> [hist EXCEPT ![MsgId(c)].out = "raised"]
                    [] how = "between" ->
                         [hist EXCEPT ![MsgId(c)].out = "raised_running"]
  /\ UNCHANGED <<api, stream, grp, last, pel, req, prod, served, ticks, created>>

\* the payloads that have no image_data_url (or an empty one)
NoImagePayloads == {"p1"}
\* ocr_worker.py: str(e) of the ValueError raised for such a payload
MissingImageError == "image_data_url is required"
\* OCRWorker.run(): the check that follows the first label raises
MissingImage(m, i) ==
  m.stream = "ocr" /\ i = 1 /\ JsonLoads(m.entry.payload) \in NoImagePayloads

\* worker.run(): update_progress(label) and the work that follows it, inside
\* the try block; whatever raises is handled by the except clause
Work(c) ==
  /\ cons[c].pc = "work"
  /\ LET labels == Labels(Msg(c).stream)
     IN \E how \in Hows :
          /\ StoreWrite(MsgTask(c),
                        UpdateMapping(UpdateProgressArgs(labels[cons[c].i])), how)
          /\ cons' = [cons EXCEPT ![c] =
                        CASE how # "ok" -> Except(@, RedisError)
                          [] how = "ok" /\ MissingImage(Msg(c), cons[c].i) ->
                               Except(@, MissingImageError)
                          [] how = "ok" /\ ~MissingImage(Msg(c), cons[c].i)
                               /\ cons[c].i < Len(labels) -> [@ EXCEPT !.i = @ + 1]
                          [] OTHER -> [@ EXCEPT !.pc = "mark_completed", !.i = 0]]
  /\ UNCHANGED <<api, stream, grp, last, pel, req, prod, hist, served, ticks, created>>

\* worker.run(): the collaborator call or computation between two store
\* calls of the try block raises (before the first label, after any label,
\* before mark_completed); the except clause gets str(e)
WorkRaises(c) ==
  /\ cons[c].pc \in {"work", "mark_completed"}
  /\ CanFault
  /\ faults' = faults + 1
  /\ \E e \in CollabErrors : cons' = [cons EXCEPT ![c] = Except(@, e)]
  /\ UNCHANGED <<idle, api, store, ttl, stream, grp, last, pel, req, prod, hist, served,
                 ticks, created>>

\* github_collector.py _request: retry_after_seconds of a rate-limit error is
\* 60 or max(1, reset - now)
RetryAfters == {42, 60}
\* (mutant) the rate-limit error handled by the generic clause: str(e)
RateLimitMessagePlain(n) == "GitHub rate limit exceeded"
\* hex_worker.py: the error message of the except GitHubRateLimitError clause
RateLimitMessage(n) ==
  "GitHub rate limit exceeded. Retry after " \o ToString(n) \o " seconds."

\* HexWorker.run(): _collect_github, the call after the first label, raises
\* GitHubRateLimitError; its except clause builds the message for mark_failed
RateLimited(c) ==
  /\ cons[c].pc = "work"
  /\ Msg(c).stream = "hex"
  /\ cons[c].i = 2
  /\ CanFault
  /\ faults' = faults + 1
  /\ \E n \in RetryAfters :
       /\ cons' = [cons EXCEPT ![c] = Except(@, RateLimitMessage(n))]
       /\ hist' = [hist EXCEPT ![MsgId(c)].limit = n]
  /\ UNCHANGED <<idle, api, store, ttl, stream, grp, last, pel, req, prod, served, ticks,
                 created>>

\* worker.run(): mark_completed(result), the last statement of the try block
MarkCompleted(c) ==
  /\ cons[c].pc = "mark_completed"
  /\ \E how \in Hows :
       /\ StoreWrite(MsgTask(c), UpdateMapping(MarkCompletedArgs(WorkerResult)),
                     how)
       /\ cons' = [cons EXCEPT ![c] =
                     IF how = "ok" THEN Returned(@) ELSE Except(@, RedisError)]
       /\ hist' = [hist EXCEPT ![MsgId(c)] =
                     [@ EXCEPT !.marks = @ + 1,
                               !.out = IF how = "ok" THEN "returned" ELSE @]]
  /\ UNCHANGED <<api, stream, grp, last, pel, req, prod, served, ticks, created>>

\* worker.run(): the except clause: mark_failed(str(e)), then raise
MarkFailed(c) ==
  /\ cons[c].pc = "mark_failed"
  /\ \E how \in Hows :
       StoreWrite(MsgTask(c), UpdateMapping(MarkFailedArgs(cons[c].err)), how)
  /\ cons' = [cons EXCEPT ![c] = Raised(@)]
  /\ hist' = [hist EXCEPT ![MsgId(c)] =
                [@ EXCEPT !.marks = @ + 1, !.out = "raised"]]
  /\ UNCHANGED <<api, stream, grp, last, pel, req, prod, served, ticks, created>>

\* (mutant) an XACK that names another group: nothing leaves the pending list
XAckOtherGroup(id) == pel
\* XACK stream group id: the entry leaves the group's pending list
XAck(id) == {e \in pel : e[1] # id}

\* _process_message: the finally clause.  After XACK the loops of
\* _consume_once go on with the rest of the reply; if XACK raises, the error
\* leaves _consume_once (the rest of the reply is dropped, never processed)
\* and run()'s loop sleeps and polls again
Ack(c) ==
  /\ cons[c].pc = "ack"
  /\ \/ LET done == [hist EXCEPT ![MsgId(c)] =
                       [@ EXCEPT !.fin = "finished",
                                 !.acks = @ + Cardinality(pel \ XAck(MsgId(c)))]]
            rest == Tail(cons[c].batch)
        IN /\ pel' = XAck(MsgId(c))
           /\ hist' = IF rest = <<>> THEN done ELSE BeginHist(done, rest[1])
           /\ cons' = [cons EXCEPT ![c] =
                         IF rest = <<>> THEN Loop(@)
                         ELSE Begin(@, rest)]
           /\ UNCHANGED faults
     \/ /\ CanFault
        /\ faults' = faults + 1
        /\ hist' = [id \in DOMAIN hist |->
                      IF id = MsgId(c) THEN [hist[id] EXCEPT !.fin = "ack_raised"]
                      ELSE IF \E k \in 2..Len(cons[c].batch) :
                                cons[c].batch[k].entry.id = id
                           THEN [hist[id] EXCEPT !.fin = "dropped"]
                           ELSE hist[id]]
        /\ cons' = [cons EXCEPT ![c] = Loop(@)]
        /\ UNCHANGED pel
  /\ UNCHANGED <<idle, api, store, ttl, stream, grp, last, req, prod, served, ticks, created>>

\* (mutant) a preemptive stop: run() is left at the await it waits in
StopPreempt(c) ==
  /\ cons[c].pc \notin {"dead", "stopped"}
  /\ cons[c].running \/ ~cons[c].asked
  /\ cons' = [cons EXCEPT ![c] = [@ EXCEPT !.running = FALSE, !.asked = TRUE,
                                            !.pc = "stopped"]]
  /\ UNCHANGED <<idle, api, store, ttl, stream, grp, last, pel, req, prod, faults,
                 ticks, hist, served, created>>
\* consumer.py stop(): clears _running; called by another coroutine while
\* run() waits in one of its awaits, _ensure_consumer_groups' included (the
\* flag is False there already: the call changes nothing but is remembered
\* in `asked`).  A call that would change neither flag is left out.
Stop(c) ==
  /\ cons[c].pc \notin {"dead", "stopped"}
  /\ cons[c].running \/ ~cons[c].asked
  /\ cons' = [cons EXCEPT ![c] = [@ EXCEPT !.running = FALSE, !.asked = TRUE]]
  /\ UNCHANGED <<idle, api, store, ttl, stream, grp, last, pel, req, prod, faults,
                 ticks, hist, served, created>>

\* ------------------------------------------------------------------ system
Next ==
  \/ Tick
  \/ \E r \in Requests : SubmitCall(r)
  \/ \E r \in Requests : SubmitCreate(r)
  \/ \E r \in Requests : SubmitXadd(r)
  \/ \E c \in Consumers : EnsureGroups(c)
  \/ \E c \in Consumers : Poll(c)
  \/ \E c \in Consumers : MarkRunning(c)
  \/ \E c \in Consumers : Work(c)
  \/ \E c \in Consumers : WorkRaises(c)
  \/ \E c \in Consumers : RateLimited(c)
  \/ \E c \in Consumers : MarkCompleted(c)
  \/ \E c \in Consumers : MarkFailed(c)
  \/ \E c \in Consumers : Ack(c)

Spec == Init /\ [][Next]_vars

\* ------------------------------------------------------------------ claims
\* what the callers of TaskStore.get see
Status(t) == Get(t).status
\* the entry ids the group holds as pending (delivered, not acknowledged)
PendingIds == {e[1] : e \in pel}
\* the entry ids some consumer holds in the reply it is working through
InHand(c) == {cons[c].batch[k].entry.id : k \in 1..Len(cons[c].batch)}
\* the message is the one a consumer is inside _process_message for
InProcess(id) == \E c \in Consumers : cons[c].batch # <<>> /\ MsgId(c) = id

C2_RecordBeforeMessage ==
  /\ \A id \in DOMAIN hist : hist[id].stored
  /\ ticks < DEFAULT_TTL => \A e \in Entries : Get(e.task_id) # NotFound

\* C2 witness: a consumer holds a message and the store resolves its task_id
C2_Witness ==
  \E c \in Consumers :
    /\ cons[c].pc = "mark_running"
    /\ Status(MsgTask(c)) = PENDING
    /\ \E r \in Requests : prod[r] = "xadd"

\* C3: a message is delivered at most once, to one consumer, and causes at
\* most one worker.run, also after its run raised or its XACK failed
C3_AtMostOneRun ==
  /\ \A id \in DOMAIN hist : hist[id].recv <= 1 /\ hist[id].runs <= 1
  /\ \A c, d \in Consumers : c # d => InHand(c) \cap InHand(d) = {}

\* C3 witness: a message whose run raised was acknowledged and both consumers
\* have polled since without receiving it again
C3_Witness ==
  /\ \E id \in DOMAIN hist :
       hist[id].runs = 1 /\ hist[id].out = "raised" /\ hist[id].fin = "finished"
  /\ \A id \in DOMAIN hist : hist[id].fin # "none"
  /\ \A c \in Consumers : cons[c].pc = "poll"
  /\ Len(hist) = Cardinality(Requests)

\* --------------------------------------------------------------- liveness
\* the consumer is in run()'s loop: its groups exist and it polls
Running(c) == cons[c].pc \notin {"groups", "dead"}

\* one step of a consumer's coroutine: it is at one await at a time
ConsumerStep(c) ==
  \/ EnsureGroups(c)
  \/ Poll(c)
  \/ MarkRunning(c)
  \/ Work(c)
  \/ MarkCompleted(c)
  \/ MarkFailed(c)
  \/ Ack(c)

\* Fair scheduling: the event loop resumes a coroutine whose awaited Redis
\* call has answered, and a transport that eventually responds answers every
\* call; the failures of calls are bounded by the fault budget.  Requests,
\* failing collaborators and the clock are not forced.
Fairness == \A c \in Consumers : WF_vars(ConsumerStep(c))

\* two requests for different tasks, one for each stream a request can append to
LiveInit ==
  /\ Init
  /\ req = [r \in Requests |->
              IF r = "r1" THEN [task_id |-> "t1", task_type |-> "hex"]
              ELSE [task_id |-> "t2", task_type |-> "job"]]

FairSpec == LiveInit /\ [][Next]_vars /\ Fairness

\* the ids XADD can give in one behaviour
EntryIds == 1..Cardinality(Requests)

Statuses == {PENDING, RUNNING, COMPLETED, FAILED}
Terminal == {COMPLETED, FAILED}
\* a field of the record TaskStore.get returns is set (not None)
IsSet(v) == v # NoneVal

\* C5: the status of a record only moves forward: a completed or failed record
\* never changes status again and a running record never returns to pending
\* (a record that expires is gone, which is not a change of status)
C5_StatusForward ==
  [][\A t \in TaskIds :
       /\ Status(t) \in Terminal /\ Status(t)' \in Statuses
            => Status(t)' = Status(t)
       /\ Status(t) = RUNNING => Status(t)' # PENDING]_vars

\* C7: a completed record has error unset and a failed record has result unset
C7_MutuallyExclusive ==
  \A t \in TaskIds :
    LET rec == Get(t)
    IN /\ rec.status = COMPLETED => ~IsSet(rec.error)
       /\ rec.status = FAILED => ~IsSet(rec.result)

\* C8: a terminal record read back with get() has exactly one of result and
\* error: completed has a result and no error, failed an error and no result
C8_ExactlyOneSet ==
  \A t \in TaskIds :
    LET rec == Get(t)
    IN rec.status \in Terminal
         => /\ IsSet(rec.result) # IsSet(rec.error)
            /\ IsSet(rec.result) <=> rec.status = COMPLETED

\* C9: a record has a result only while completed and an error only while
\* failed; no pending or running record carries either
C9_OnlyWhenTerminal ==
  \A t \in TaskIds :
    LET rec == Get(t)
    IN rec.status \in Statuses
         => /\ IsSet(rec.result) => rec.status = COMPLETED
            /\ IsSet(rec.error) => rec.status = FAILED

\* the entries that carry a task id, and whether a consumer received one
EntriesOf(t) == {e \in Entries : e.task_id = t}
Received(t) == \E e \in EntriesOf(t) : hist[e.id].recv > 0

\* C10 (as claimed): at the moment submit returns, get() of the task yields a
\* record with status pending and created_at set
C10_PendingAtReturn ==
  [][\A r \in Requests :
       prod[r] = "xadd" /\ prod'[r] = "returned"
         => /\ Status(req[r].task_id)' = PENDING
            /\ IsSet(Get(req[r].task_id)'.created_at)]_vars

\* C10 (amended): after submit returned, get() of the task yields a record
\* with status pending and created_at set for as long as no consumer has
\* received a message carrying the task id and the retention window since the
\* submission has not run out
C10_PendingUntilReceived ==
  \A r \in Requests :
    prod[r] = "returned" /\ ~Received(req[r].task_id) /\ ticks < DEFAULT_TTL
      => /\ Status(req[r].task_id) = PENDING
         /\ IsSet(Get(req[r].task_id).created_at)

\* C10 witness: submit has returned, a consumer is polling and the record
\* reads pending with the created_at of the submission
C10_Witness ==
  \E r \in Requests :
    /\ prod[r] = "returned"
    /\ \E c \in Consumers : cons[c].pc = "poll"
    /\ ~Received(req[r].task_id)
    /\ Status(req[r].task_id) = PENDING
    /\ Get(req[r].task_id).created_at = CreatedAt(r)

\* ------------------------------------------------------ unregistered types
\* A worker process started with --types hex job ocr zzz, and a message in
\* tasks:zzz for a stored pending task.  TaskProducer cannot append there (zzz
\* is no member of TaskType): the message and its record come from another
\* writer of the same Redis, e.g. a release whose TaskType has the member.
UnknownInit ==
  /\ store = [t \in TaskIds |->
                IF t = "t2"
                THEN Serialize("t2", UnregisteredType, "p2", "ts-x")
                ELSE NoKey]
  /\ ttl = [t \in TaskIds |-> IF t = "t2" THEN DEFAULT_TTL ELSE NoTtl]
  /\ stream = [s \in Streams |->
                 IF s = UnregisteredType
                 THEN <<[id |-> 1, task_id |-> "t2",
                         payload |-> JsonDumps("p2")]>>
                 ELSE <<>>]
  /\ grp = [s \in Streams |-> FALSE]
  /\ last = [s \in Streams |-> 0]
  /\ pel = {}
  /\ req = [r \in Requests |-> [task_id |-> "t1", task_type |-> "hex"]]
  /\ prod = [r \in Requests |-> "new"]
  /\ cons = [c \in Consumers |->
               [pc |-> "groups", batch |-> <<>>, i |-> 0, err |-> "",
                running |-> FALSE, asked |-> FALSE]]
  /\ faults = 0
  /\ ticks = 0
  /\ hist = <<[stored |-> TRUE, recv |-> 0, begun |-> FALSE, runs |-> 0,
               marks |-> 0, limit |-> 0, acks |-> 0, out |-> "none",
               fin |-> "none"]>>
  /\ created = {"t2"}
  /\ served = WORKER_REGISTRY \o <<UnregisteredType>>
  /\ idle = [t \in TaskIds |-> IF t = "t2" THEN 0 ELSE Untouched]
  /\ api = NoCall

SpecUnknown == UnknownInit /\ [][Next]_vars

\* C6: once a message for a task type with no registered worker has been
\* processed, its record (while it lasts) has status failed and a non-empty
\* error, and the message was received once and acknowledged once
C6_UnknownTypeFailed ==
  \A e \in Entries :
    /\ hist[e.id].out = "unresolved"
    /\ hist[e.id].fin = "finished"
    /\ store[e.task_id] # NoKey
    => /\ store[e.task_id]["status"] = FAILED
       /\ store[e.task_id]["error"] \notin {"", Absent}
       /\ hist[e.id].recv = 1
       /\ hist[e.id].acks = 1

\* ------------------------------------------------------------ worker claims
\* worker.run() has ended for the message: it returned or it raised
RunEnded(id) == hist[id].out \in {"returned", "raised", "raised_running"}

\* C11: every path through run() calls exactly one of mark_completed and
\* mark_failed before run() returns or raises, also when a store call of
\* mark_running or mark_completed raises
C11_ExactlyOneMark ==
  \A id \in DOMAIN hist : RunEnded(id) => hist[id].marks = 1

\* the task id a message carries
TaskOf(id) == (CHOOSE e \in Entries : e.id = id).task_id
\* run() raised out of mark_running after its HSET had written status running:
\* the worker raised after mark_running without calling mark_failed
Stuck(id) == hist[id].out = "raised_running"
\* the task id is used by one submission only
Sole(t) == Cardinality({r \in Requests : req[r].task_id = t}) = 1

\* the status field of the stored hash (Absent once the record has expired)
StoredStatus(t) == store[t]["status"]

Limited(id) == hist[id].limit > 0
\* the claimed ending of the error message
RetrySuffix(n) == "Retry after " \o ToString(n) \o " seconds."
\* the text ends in the suffix (the texts before it in the model's messages)
EndsIn(text, suffix) ==
  \E pre \in {"", "GitHub rate limit exceeded. "} : text = pre \o suffix

\* C13: when the GitHub collector raises a rate-limit error with
\* retry_after_seconds = N, the worker calls mark_failed with a message ending
\* in 'Retry after N seconds.'; the call, once its store write is made, leaves
\* the record failed with that error; run() raises again and the consumer's
\* except clause leads to the XACK, which acknowledges the message once
C13_RateLimitRecorded ==
  [][/\ \A c \in Consumers :
          cons[c].batch # <<>> /\ Limited(MsgId(c)) /\ cons[c].pc = "mark_failed"
            => LET id == MsgId(c)
                   t == MsgTask(c)
                   n == hist[id].limit
               IN /\ EndsIn(cons[c].err, RetrySuffix(n))
                  /\ cons'[c].pc # "mark_failed"
                       => /\ cons'[c].pc = "ack"
                          /\ hist'[id].out = "raised" /\ hist'[id].marks = 1
                          /\ faults' = faults
                               => /\ store'[t]["status"] = FAILED
                                  /\ EndsIn(store'[t]["error"], RetrySuffix(n))
     /\ \A id \in DOMAIN hist :
          Limited(id) /\ InProcess(id) /\ ~InProcess(id)'
            /\ hist'[id].fin # "ack_raised"
            => hist'[id].acks = 1 /\ id \notin PendingIds']_vars

\* C13 witness: a rate-limited run ended, its message was acknowledged and the
\* record reads failed with the retry message
C13_Witness ==
  \E id \in DOMAIN hist :
    /\ hist[id].limit = 42
    /\ hist[id].fin = "finished" /\ hist[id].acks = 1
    /\ Status(TaskOf(id)) = FAILED
    /\ Get(TaskOf(id)).error = "GitHub rate limit exceeded. Retry after 42 seconds."

\* -------------------------------------------------------------- ocr tasks
\* the asynchronous OCR handler is called for a payload with no image, next
\* to a hex request
OcrInit ==
  /\ store = [t \in TaskIds |-> NoKey]
  /\ ttl = [t \in TaskIds |-> NoTtl]
  /\ stream = [s \in Streams |-> <<>>]
  /\ grp = [s \in Streams |-> FALSE]
  /\ last = [s \in Streams |-> 0]
  /\ pel = {}
  /\ req = [r \in Requests |->
              IF r = "r1" THEN [task_id |-> "t1", task_type |-> "ocr"]
              ELSE [task_id |-> "t2", task_type |-> "hex"]]
  /\ prod = [r \in Requests |-> "new"]
  /\ cons = [c \in Consumers |->
               [pc |-> "groups", batch |-> <<>>, i |-> 0, err |-> "",
                running |-> FALSE, asked |-> FALSE]]
  /\ faults = 0
  /\ ticks = 0
  /\ hist = <<>>
  /\ created = {}
  /\ served = WORKER_REGISTRY
  /\ idle = [t \in TaskIds |-> Untouched]
  /\ api = NoCall

SpecOcr == OcrInit /\ [][Next]_vars

\* nothing is left to happen for the task of a request: its handler has ended
\* and no message carrying the task id is undelivered or being processed
Settled(r) ==
  /\ prod[r] \in {"returned", "raised", "xadd_raised"}
  /\ \A e \in EntriesOf(req[r].task_id) : hist[e.id].fin # "none"

\* C14: a task of type ocr submitted with a payload that has no image ends
\* failed with an error naming image_data_url, its message acknowledged once,
\* and the record is read back by status polling (no call failed, no expiry)
C14_OcrMissingImageFails ==
  \A r \in Requests :
    /\ req[r].task_type = "ocr"
    /\ PayloadOf(r) \in NoImagePayloads
    /\ Settled(r)
    /\ faults = 0 /\ ticks = 0
    => /\ Status(req[r].task_id) = FAILED
       /\ Get(req[r].task_id).error = MissingImageError
       /\ \E e \in EntriesOf(req[r].task_id) : hist[e.id].acks = 1

\* ------------------------------------------------------- reused task ids
\* the record create() returns to the request, as get() reads it back
FreshRecord(r) ==
  [task_id |-> req[r].task_id, task_type |-> req[r].task_type,
   status |-> PENDING, progress |-> NoneVal, payload |-> PayloadOf(r),
   result |-> NoneVal, error |-> NoneVal, created_at |-> CreatedAt(r),
   started_at |-> NoneVal, completed_at |-> NoneVal]
\* two requests carry the same task id
SameId(r, q) == r # q /\ req[r].task_id = req[q].task_id

\* C15: a create() overwrites every field of the record an earlier submit
\* with the same task id (and its worker) wrote: right after it the record
\* reads pending with the payload and created_at of this call and nothing
\* else; both submits append, so two messages carry the task id
C15_LastCreateWins ==
  [][/\ \A r \in Requests :
          prod[r] = "create" /\ prod'[r] # "create"
            => \/ Get(req[r].task_id)' = FreshRecord(r)
               \/ prod'[r] = "raised" /\ store' = store
     /\ \A r, q \in Requests :
          SameId(r, q) /\ prod'[r] = "returned" /\ prod'[q] = "returned"
            => Cardinality(EntriesOf(req[r].task_id)') = 2]_vars

\* C15 witness: the first submission ran to completion, the second one with
\* the same task id has returned, and the record reads as the second wrote it
C15_Witness ==
  \E r, q \in Requests :
    /\ SameId(r, q)
    /\ prod[r] = "returned" /\ prod[q] = "returned"
    /\ \E e \in EntriesOf(req[r].task_id) : hist[e.id].out = "returned"
    /\ Get(req[q].task_id) = FreshRecord(q)
    /\ Cardinality(EntriesOf(req[r].task_id)) = 2

\* the consumer is inside worker.run() for the message at the head of its reply
InRun(c) ==
  cons[c].pc \in {"mark_running", "work", "mark_completed", "mark_failed"}

\* C16: two worker runs for the same task id are never in flight at the same
\* time, whatever the consumers and submissions do
C16_OneRunPerTask ==
  \A c, d \in Consumers :
    c # d /\ InRun(c) /\ InRun(d) => MsgTask(c) # MsgTask(d)

\* ------------------------------------------------------------ store claims
\* C17: a record neither created nor updated for the TTL window is returned as
\* not-found by get(), as a task id never submitted is (a state in which the
\* key has been idle for DEFAULT_TTL ticks stands for the times later than
\* DEFAULT_TTL after its last write)
C17_IdleIsNotFound ==
  \A t \in TaskIds : idle[t] >= DEFAULT_TTL => Get(t) = NotFound

\* C19: every record in the store has a finite expiry set, also after a store
\* write succeeded and the expire call after it failed
C19_EveryRecordExpires ==
  \A t \in TaskIds : store[t] # NoKey => ttl[t] # NoTtl /\ ttl[t] <= DEFAULT_TTL

\* ---- TaskStore called on its own: create() and update() with any arguments
\* the keyword arguments tried for update(): any subset of two of the
\* keywords, an enum and an optional string, the string also given as None
UpdateKeys == {"status", "progress"}
KwargValues(k) ==
  CASE k = "status" -> {<<"enum", RUNNING>>}
    [] k = "progress" -> {PyNone, <<"str", "step">>}
UpdateKwargs ==
  UNION {{kw \in [D -> UNION {KwargValues(k) : k \in UpdateKeys}] :
            \A k \in D : kw[k] \in KwargValues(k)} : D \in SUBSET UpdateKeys}

\* the call recorded in api
Call(op, t, kwargs) == [op |-> op, task_id |-> t, kwargs |-> kwargs]

\* store.py create(): the record of a new task is serialized, written with
\* HSET, and the key is given DEFAULT_TTL with EXPIRE
StoreCreate(t, ty) ==
  /\ \E how \in Hows :
       /\ StoreWrite(t, Serialize(t, ty, PayloadOf("r1"), CreatedAt("r1")), how)
       /\ created' = IF how = "before" THEN created ELSE created \cup {t}
  /\ api' = Call("create", t, <<>>)
  /\ UNCHANGED <<stream, grp, last, pel, req, prod, cons, ticks, hist, served>>

\* store.py update(): the keyword arguments that are not None are encoded;
\* HSET and EXPIRE are called only when one is left
StoreUpdate(t, kwargs) ==
  /\ IF UpdateMapping(kwargs) = <<>>
       THEN UNCHANGED <<store, ttl, faults, idle>>
       ELSE \E how \in Hows : StoreWrite(t, UpdateMapping(kwargs), how)
  /\ api' = Call("update", t, kwargs)
  /\ UNCHANGED <<stream, grp, last, pel, req, prod, cons, ticks, hist, served,
                 created>>

StoreNext ==
  \/ Tick
  \/ \E t \in TaskIds : \E ty \in TaskType : StoreCreate(t, ty)
  \/ \E t \in TaskIds : \E kwargs \in UpdateKwargs : StoreUpdate(t, kwargs)

\* no request is in flight: the requests' arguments are never read
StoreInit ==
  /\ Init
  /\ req = [r \in Requests |->
             [task_id |-> IF r = "r1" THEN "t1" ELSE "t2", task_type |-> "hex"]]

SpecStore == StoreInit /\ [][StoreNext]_vars

\* the step is a call of the given operation on task t
Called(op, t) == api' # api /\ api'.op = op /\ api'.task_id = t

\* C18: every create(), and every update() of a record in the store, that does
\* not fail leaves the key with the full window DEFAULT_TTL, whatever keyword
\* arguments update() gets
C18_SlidingTtl ==
  [][\A t \in TaskIds :
       /\ Called("create", t) \/ (Called("update", t) /\ store[t] # NoKey)
       /\ faults' = faults
       => ttl'[t] = DEFAULT_TTL]_vars

\* C20: update() changes no field of the record but those named in the call,
\* and no field of any other record
C20_UpdateFrame ==
  [][\A t \in TaskIds :
       Called("update", t)
         => /\ \A f \in Fields \ DOMAIN api'.kwargs : store'[t][f] = store[t][f]
            /\ \A u \in TaskIds \ {t} : store'[u] = store[u]]_vars

\* an update of status alone has been made to a record create() had written:
\* the status is the one passed and the fields of create() are still there
C20_Witness ==
  /\ api.op = "update"
  /\ DOMAIN api.kwargs = {"status"}
  /\ store[api.task_id]["status"] = api.kwargs["status"][2]
  /\ store[api.task_id]["task_id"] = api.task_id
  /\ store[api.task_id]["payload"] # Absent
  /\ store[api.task_id]["created_at"] # Absent

\* ------------------------------------------------------ lifecycle helpers
\* _deserialize reads a field that is missing or empty as unset
Unset(h, f) == ~Truthy(h, f)

\* C21: when mark_completed(result) has returned, the record has status
\* completed, completed_at and the result, and no error, whatever error the
\* record held before the call
C21_CompletedClearsError ==
  [][\A c \in Consumers :
       cons[c].pc = "mark_completed" /\ cons'[c].pc = "ack"
         /\ hist'[MsgId(c)].out = "returned"
         => LET h == store'[MsgTask(c)]
            IN /\ h["status"] = COMPLETED
               /\ h["result"] = JsonDumps(WorkerResult)
               /\ ~Unset(h, "completed_at")
               /\ Unset(h, "error")]_vars

\* the step is a call of update_progress by consumer c that returned
ProgressUpdated(c) ==
  cons[c].pc = "work" /\ cons'[c] # cons[c] /\ faults' = faults
\* the label of the update_progress call consumer c is about to make
NextLabel(c) == Labels(Msg(c).stream)[cons[c].i]
\* every label a worker passes to update_progress
AllLabels ==
  UNION {{Labels(ty)[k] : k \in 1..Len(Labels(ty))} : ty \in RegisteredTypes}

\* C22: after each update_progress(label) that returned, get() returns the
\* record with that label as progress, and the stored progress changes to a
\* label only by an update_progress call with that label (it never goes back
\* to an earlier one by itself)
C22_LastLabelReadable ==
  [][/\ \A c \in Consumers :
          ProgressUpdated(c) => /\ Get(MsgTask(c))' # GetRaises
                                /\ Get(MsgTask(c))'.progress = NextLabel(c)
     /\ \A t \in TaskIds :
          store'[t]["progress"] # store[t]["progress"]
            /\ store'[t]["progress"] \in AllLabels
            => \E c \in Consumers :
                 /\ cons[c].pc = "work" /\ cons'[c] # cons[c] /\ MsgTask(c) = t
                 /\ store'[t]["progress"] = NextLabel(c)]_vars

\* ------------------------------------------------------- consumer claims
\* C23: one poll cycle claims at most one message over all the streams the
\* consumer serves: no step adds more than one entry to the pending list
C23_OneMessagePerCycle ==
  [][Cardinality(pel' \ pel) <= 1]_vars

\* the system with stop requests: two submissions of different types and
\* task ids, and consumers that may be asked to stop at any of their awaits
StopNext ==
  \/ Next
  \/ \E c \in Consumers : Stop(c)
SpecStop == LiveInit /\ [][StopNext]_vars

\* C24 (as claimed): no error of the transport or the store ends a consumer,
\* at group creation on startup, at xreadgroup or at xack: a consumer is never
\* left dead by an error
C24_NeverTerminated ==
  \A c \in Consumers : cons[c].pc # "dead"

\* C24 (amended): once the groups are made, no error ends the consumer: an
\* error at xreadgroup or at xack is followed by the next turn of the loop,
\* and the consumer leaves the loop only with _running cleared by stop()
C24_LoopErrorsRetried ==
  [][\A c \in Consumers :
       /\ cons[c].pc \notin {"groups", "dead"} => cons'[c].pc # "dead"
       /\ cons[c].pc # "stopped" /\ cons'[c].pc = "stopped" => ~cons[c].running
       /\ cons[c].pc = "poll" /\ faults' # faults /\ cons[c].running
            => cons'[c].pc = "poll"
       /\ cons[c].pc = "ack" /\ cons'[c] # cons[c] /\ faults' # faults
            /\ cons[c].running
            => cons'[c].pc = "poll" /\ cons'[c].batch = <<>>]_vars

\* C24 witness: an xack of a consumer raised and the consumer is polling again
C24_Witness ==
  \E c \in Consumers : \E id \in DOMAIN hist :
    /\ hist[id].fin = "ack_raised"
    /\ <<id, c>> \in pel
    /\ cons[c].pc = "poll" /\ cons[c].running

\* a state Spec reaches: the first request (a hex task) has been submitted,
\* consumer c1 has made the groups, has been delivered the message and is
\* about to run its worker; consumer c2 has not started yet
LateEntry == [task_id |-> "t1", payload |-> JsonDumps(PayloadOf("r1")), id |-> 1]
LateInit ==
  /\ store = [t \in TaskIds |->
                IF t = "t1"
                THEN Serialize("t1", "hex", PayloadOf("r1"), CreatedAt("r1"))
                ELSE NoKey]
  /\ ttl = [t \in TaskIds |-> IF t = "t1" THEN DEFAULT_TTL ELSE NoTtl]
  /\ stream = [s \in Streams |-> IF s = "hex" THEN <<LateEntry>> ELSE <<>>]
  /\ grp = [s \in Streams |-> s \in RegisteredTypes]
  /\ last = [s \in Streams |-> IF s = "hex" THEN 1 ELSE 0]
  /\ pel = {<<1, "c1">>}
  /\ req = [r \in Requests |->
              IF r = "r1" THEN [task_id |-> "t1", task_type |-> "hex"]
              ELSE [task_id |-> "t2", task_type |-> "job"]]
  /\ prod = [r \in Requests |-> IF r = "r1" THEN "returned" ELSE "new"]
  /\ cons = [c \in Consumers |->
               IF c = "c1"
               THEN [pc |-> "mark_running",
                     batch |-> <<[stream |-> "hex", entry |-> LateEntry]>>,
                     i |-> 0, err |-> "", running |-> TRUE, asked |-> FALSE]
               ELSE [pc |-> "groups", batch |-> <<>>, i |-> 0, err |-> "",
                     running |-> FALSE, asked |-> FALSE]]
  /\ faults = 0
  /\ ticks = 0
  /\ hist = <<[stored |-> TRUE, recv |-> 1, begun |-> TRUE, runs |-> 1,
               marks |-> 0, limit |-> 0, acks |-> 0, out |-> "none",
               fin |-> "none"]>>
  /\ created = {"t1"}
  /\ served = WORKER_REGISTRY
  /\ idle = [t \in TaskIds |-> IF t = "t1" THEN 0 ELSE Untouched]
  /\ api = NoCall

SpecLate == LateInit /\ [][Next]_vars

\* the step is the startup of consumer c: its _ensure_consumer_groups ended
Started(c) == cons[c].pc = "groups" /\ cons'[c].pc # "groups"

\* C25: the startup of a consumer leaves every group that exists as it is
\* (what it has been delivered, and what is pending), and unless a call fails
\* on the connection it succeeds, whether or not the groups existed: all the
\* groups it serves exist after it and the consumer goes on to poll
C25_GroupCreateIdempotent ==
  [][\A c \in Consumers :
       Started(c)
         => /\ \A ty \in Streams : grp[ty] => grp'[ty] /\ last'[ty] = last[ty]
            /\ pel' = pel
            /\ faults' = faults
                 => /\ cons'[c].pc = "poll"
                    /\ \A j \in 1..Len(served) : grp'[served[j]]]_vars

\* C25 witness: the second consumer has started and polls, after the group
\* had been delivered the first message; the message is still the first
\* consumer's and was delivered once
C25_Witness ==
  /\ cons["c2"].pc = "poll"
  /\ last["hex"] = 1
  /\ <<1, "c1">> \in pel
  /\ hist[1].recv = 1

\* the step is the one in which consumer c leaves the loop of run()
Exits(c) == cons[c].pc # "stopped" /\ cons'[c].pc = "stopped"
\* the entry ids of the reply consumer c is working through
BatchIds(c) == {cons[c].batch[k].entry.id : k \in 1..Len(cons[c].batch)}
\* the entries pending for consumer c
PendingOf(c) == {id \in DOMAIN hist : <<id, c>> \in pel}

XaddFailed(r) == prod[r] = "xadd_raised"

\* C27 (as claimed): when xadd fails after create() succeeded, submit() makes
\* no further call: the failing step changes neither record nor stream, and
\* ever after the record is pending or has expired and no message carries
\* its task id
C27_PendingNeverDelivered ==
  [][\A r \in Requests :
       /\ prod[r] = "xadd" /\ XaddFailed(r)' => store' = store /\ stream' = stream
       /\ XaddFailed(r) => XaddFailed(r)'
       /\ XaddFailed(r)'
            => /\ StoredStatus(req[r].task_id)' \in {PENDING, Absent}
               /\ EntriesOf(req[r].task_id)' = {}]_vars

\* C27 (amended): the same for a task id no other submission carries
C27_PendingNeverDeliveredSole ==
  [][\A r \in Requests :
       /\ prod[r] = "xadd" /\ XaddFailed(r)' => store' = store /\ stream' = stream
       /\ XaddFailed(r) => XaddFailed(r)'
       /\ XaddFailed(r)' /\ Sole(req[r].task_id)
            => /\ StoredStatus(req[r].task_id)' \in {PENDING, Absent}
               /\ EntriesOf(req[r].task_id)' = {}]_vars

\* C27 witness: the xadd of a submission failed, its record is still stored
\* as pending, a consumer is polling, and the clock has moved on
C27_Witness ==
  \E r \in Requests :
    /\ XaddFailed(r) /\ Sole(req[r].task_id)
    /\ Status(req[r].task_id) = PENDING
    /\ \E c \in Consumers : cons[c].pc = "poll"
    /\ ticks > 0

\* ------------------------------------------------------ the task routers
\* routers/tasks.py get_task_result, given what store.get returned: the HTTP
\* status and the detail of the HTTPException raised, or 200 and the body
GetTaskResult(rec) ==
  CASE rec = NotFound -> [code |-> 404, detail |-> [message |-> "Task not found"]]
    [] rec # NotFound /\ rec.status = PENDING ->
         [code |-> 202,
          detail |-> [message |-> "Task pending", status |-> PENDING]]
    [] rec # NotFound /\ rec.status = RUNNING ->
         [code |-> 202,
          detail |-> [message |-> "Task running", status |-> RUNNING,
                      progress |-> rec.progress]]
    [] rec # NotFound /\ rec.status = FAILED ->
         [code |-> 500,
          detail |-> [message |-> "Task failed", error |-> rec.error]]
    [] OTHER -> [code |-> 200,
                 body |-> IF rec.result = NoneVal THEN "{}" ELSE rec.result]

\* the progress a response carries: None when its detail has no such key
ProgressIn(out) ==
  IF "progress" \in DOMAIN out.detail THEN out.detail.progress ELSE NoneVal

\* C28: get_task_result answers by the record alone: not-found for no record;
\* for a pending or running record the still-in-progress signal with the
\* status and the current progress of the record; for a failed record the
\* failed signal with its error; the result if and only if it is completed
C28_FourOutcomes ==
  \A t \in TaskIds :
    LET rec == Get(t)
        out == GetTaskResult(rec)
    IN rec # GetRaises
         => /\ rec = NotFound <=> out.code = 404
            /\ rec.status \in {PENDING, RUNNING}
                 => /\ out.code = 202
                    /\ out.detail.status = rec.status
                    /\ ProgressIn(out) = rec.progress
            /\ rec.status = FAILED
                 => out.code = 500 /\ out.detail.error = rec.error
            /\ rec.status = COMPLETED <=> out.code = 200
            /\ rec.status = COMPLETED /\ rec.result # NoneVal
                 => out.body = rec.result

\* ---------------------------------------------------------- run claims
\* the worker made for message id is at its first await, the store call of
\* mark_running, which has not returned yet
Starting(id) ==
  \E c \in Consumers :
    cons[c].pc = "mark_running" /\ cons[c].batch # <<>> /\ MsgId(c) = id

\* C29: a record whose started_at is unset has never been picked up: no
\* worker was made and run for a message that carries its task id (but for
\* one whose mark_running call is still in flight)
C29_NoStartNoRun ==
  \A t \in TaskIds :
    store[t] # NoKey /\ Unset(store[t], "started_at")
      => \A e \in EntriesOf(t) : hist[e.id].runs = 0 \/ Starting(e.id)

\* where a run is once mark_running has returned: at a progress update or a
\* collaborator call, at mark_completed, or at mark_failed
AfterMarkRunning == {"work", "mark_completed", "mark_failed"}

\* C30: in every run mark_running comes first: the step that starts a run
\* writes nothing to the store and leaves the worker at mark_running, and the
\* run gets to its progress updates, collaborator calls and terminal marks
\* only by the step in which mark_running returns, with status running and
\* started_at written
C30_MarkRunningFirst ==
  [][\A c \in Consumers :
       /\ cons[c].pc \notin AfterMarkRunning /\ cons'[c].pc \in AfterMarkRunning
            => /\ cons[c].pc = "mark_running"
               /\ cons'[c].pc = "work" /\ cons'[c].i = 1
               /\ store'[MsgTask(c)]["status"] = RUNNING
               /\ ~Unset(store'[MsgTask(c)], "started_at")
       /\ cons[c].pc \in {"poll", "ack"} /\ cons'[c].batch # <<>>
            /\ hist'[MsgId(c)'].runs > 0 /\ hist'[MsgId(c)'].out = "none"
            => cons'[c].pc = "mark_running" /\ store' = store
       /\ cons[c].pc = "mark_running" /\ cons'[c].pc = "ack"
            => hist'[MsgId(c)].marks = 0 /\ faults' # faults]_vars

\* C30 witness: a run has made its first progress update: the record reads
\* running with started_at and the first label
C30_Witness ==
  \E c \in Consumers :
    /\ cons[c].pc = "work" /\ cons[c].i = 2
    /\ StoredStatus(MsgTask(c)) = RUNNING
    /\ ~Unset(store[MsgTask(c)], "started_at")
    /\ store[MsgTask(c)]["progress"] = Labels(Msg(c).stream)[1]

\* ------------------------------------------------------- identity fields
\* the fields create() writes from the arguments of submit() and the clock
IdentityFields == {"task_id", "task_type", "payload", "created_at"}
\* the step is the HSET of a create() for task t
Creates(t) ==
  \E r \in Requests :
    prod[r] = "create" /\ prod'[r] # "create" /\ req[r].task_id = t

\* C31 (as claimed): once a record is created its task_id, task_type, payload
\* and created_at never change while the record is in the store, whatever
\* submits, consumers and workers do
C31_IdentityNeverChanges ==
  [][\A t \in TaskIds : \A f \in IdentityFields :
       store[t][f] # Absent /\ store'[t] # NoKey
         => store'[t][f] = store[t][f]]_vars

\* C31 (amended): while the record is in the store these fields are changed
\* by no consumer or worker step, only by the create() of a later submit
\* with the same task id
C31_IdentityChangedByCreateOnly ==
  [][\A t \in TaskIds : \A f \in IdentityFields :
       store[t][f] # Absent /\ store'[t] # NoKey /\ store'[t][f] # store[t][f]
         => Creates(t)]_vars

\* C31 witness: a record has been through a whole run and reads completed
\* with the task id, type, payload and created_at its submit gave it
C31_Witness ==
  \E r \in Requests :
    LET rec == Get(req[r].task_id)
    IN /\ Sole(req[r].task_id)
       /\ rec.status = COMPLETED
       /\ rec.task_id = req[r].task_id /\ rec.task_type = req[r].task_type
       /\ rec.payload = PayloadOf(r) /\ rec.created_at = CreatedAt(r)

\* C32: once the record of a task has expired (or when it never existed),
\* get() returns not-found until a submit creates it again: an update a
\* worker makes late brings nothing back and does not make get() fail
C32_ExpiredStaysNotFound ==
  [][\A t \in TaskIds :
       store[t] = NoKey /\ ~Creates(t) => Get(t)' = NotFound]_vars

\* C33: a record that reads running, completed or failed has started_at set
\* (only workers write these statuses), one that reads completed or failed
\* has completed_at set, and one that reads pending has neither
C33_StampsMatchStatus ==
  \A t \in TaskIds :
    LET rec == Get(t)
    IN rec \notin {NotFound, GetRaises}
         => /\ rec.status \in {RUNNING} \cup Terminal => IsSet(rec.started_at)
            /\ rec.status \in Terminal => IsSet(rec.completed_at)
            /\ rec.status = PENDING
                 => ~IsSet(rec.started_at) /\ ~IsSet(rec.completed_at)

\* -------------------------------------------------- the record encoding
\* Python truthiness of an optional field of a TaskRecord: None, the empty
\* string and the empty dictionary are false
Falsy(v) == v \in {NoneVal, "", "{}"}
\* store.py _serialize of any TaskRecord: `x or ""` for progress and error,
\* json.dumps for the payload, and for the result only if it is truthy,
\* isoformat for the datetimes that are set
SerializeRecord(rec) ==
  [f \in Fields |->
     CASE f = "payload" -> JsonDumps(rec.payload)
       [] f = "result" -> IF Falsy(rec.result) THEN "" ELSE JsonDumps(rec.result)
       [] f \in {"task_id", "task_type", "status", "created_at"} -> rec[f]
       [] OTHER -> IF Falsy(rec[f]) THEN "" ELSE rec[f]]

\* the TaskRecord values tried: each optional field unset, empty or set
Records ==
  [task_id : {"t1"}, task_type : {"hex"}, status : {PENDING, COMPLETED},
   progress : {NoneVal, "", "step"}, payload : {"p1", "{}"},
   result : {NoneVal, "{}", WorkerResult}, error : {NoneVal, "", "boom"},
   created_at : {CreatedAt("r1")}, started_at : {NoneVal, Stamp},
   completed_at : {NoneVal, Stamp}]
\* the single keyword arguments tried for update() on a stored record
ReadBackKwargs ==
  {[progress |-> <<"str", v>>] : v \in {"", "step"}}
    \cup {[error |-> <<"str", v>>] : v \in {"", "boom"}}
    \cup {[result |-> <<"dict", v>>] : v \in {"{}", WorkerResult}}
    \cup {[status |-> <<"enum", v>>] : v \in {RUNNING, FAILED}}
    \cup {[started_at |-> <<"datetime", Stamp>>]}

\* _deserialize(_serialize(rec)), kept in api with its argument
RoundTrip(rec) ==
  /\ api' = [op |-> "roundtrip", rec |-> rec,
             back |-> Deserialize(SerializeRecord(rec))]
  /\ UNCHANGED <<store, ttl, stream, grp, last, pel, req, prod, cons, faults,
                 ticks, hist, created, served, idle>>
\* get() after update(**kwargs) on the stored hash of rec: what _deserialize
\* returns for the hash HSET leaves, kept in api with the arguments
ReadBack(rec, kwargs) ==
  /\ api' = [op |-> "readback", rec |-> rec, kwargs |-> kwargs,
             back |-> Deserialize(HSet(SerializeRecord(rec),
                                       UpdateMapping(kwargs)))]
  /\ UNCHANGED <<store, ttl, stream, grp, last, pel, req, prod, cons, faults,
                 ticks, hist, created, served, idle>>

CodecNext ==
  \/ \E rec \in Records : RoundTrip(rec)
  \/ \E kwargs \in ReadBackKwargs : ReadBack(FreshRecord("r1"), kwargs)
SpecCodec == StoreInit /\ [][CodecNext]_vars

\* C34: _deserialize(_serialize(r)) = r for every record r, and a value
\* given to update() is the value get() returns for that field
C34_RoundTrip ==
  /\ api.op = "roundtrip" => api.back = api.rec
  /\ api.op = "readback"
       => \A k \in DOMAIN api.kwargs : api.back[k] = api.kwargs[k][2]

\* ----------------------------------------------- acknowledgment claims
\* the step is the XACK that takes message id off the pending list
Acked(id) == hist'[id].acks > hist[id].acks

\* C35: when a message is acknowledged the record of its task, if there is
\* one, is not pending any more: it reads running, completed or failed
C35_AckedNotPending ==
  [][\A id \in DOMAIN hist :
       Acked(id) /\ store'[TaskOf(id)] # NoKey
         => StoredStatus(TaskOf(id))' \in {RUNNING, COMPLETED, FAILED}]_vars

\* the xack of message id raised in this step
AckRaises(id) == hist[id].fin # "ack_raised" /\ hist'[id].fin = "ack_raised"

\* C36: when xack raises, the consumer that made the call goes on polling
\* with the message left in the pending list under its name; from then on
\* the message stays there and is never delivered, processed or acknowledged
\* again
C36_AckRaisedStaysPending ==
  [][\A id \in DOMAIN hist :
       /\ AckRaises(id)
            => \E c \in Consumers :
                 /\ cons[c].pc = "ack" /\ MsgId(c) = id
                 /\ cons'[c].pc = "poll" /\ cons'[c].batch = <<>>
                 /\ <<id, c>> \in pel' /\ pel' = pel
       /\ hist[id].fin = "ack_raised"
            => /\ hist'[id] = hist[id]
               /\ \A c \in Consumers : <<id, c>> \in pel => <<id, c>> \in pel'
               /\ \A c \in Consumers :
                    cons'[c].batch # <<>> => id \notin BatchIds(c)']_vars

\* C36 witness: the xack of a message raised and the consumer that holds it
\* is now processing another message it was delivered by a later poll
C36_Witness ==
  \E c \in Consumers : \E id \in DOMAIN hist :
    /\ hist[id].fin = "ack_raised" /\ <<id, c>> \in pel
    /\ cons[c].batch # <<>> /\ MsgId(c) # id
    /\ hist[MsgId(c)].fin = "none"

\* ------------------------------------------------------------ cancellation
\* the awaits of worker.run(): the store calls of the lifecycle helpers and
\* the collaborator calls between them
WorkerAwaits == {"mark_running", "work", "mark_completed", "mark_failed"}

\* the entries of the reply that follow the one in hand get the mark `fin`:
\* the loops of _consume_once are left before they reach them
DropRest(h, c, fin) ==
  [id \in DOMAIN h |->
     IF \E k \in 2..Len(cons[c].batch) : cons[c].batch[k].entry.id = id
     THEN [h[id] EXCEPT !.fin = fin]
     ELSE h[id]]

\* task.cancel() on the task that runs run(): CancelledError is raised at the
\* await the coroutine waits in.  It is a BaseException: no `except Exception`
\* clause handles it.  In _ensure_consumer_groups it leaves run(); in
\* xreadgroup it reaches the loop's `except asyncio.CancelledError: break`; in
\* worker.run() it skips the worker's and _process_message's except clauses
\* and the finally clause is next; in the finally clause's xack the command
\* was sent or was not, and the loop breaks.
Cancel(c) ==
  /\ cons[c].pc \in {"groups", "poll", "ack"} \cup WorkerAwaits
  /\ \/ /\ cons[c].pc \in {"groups", "poll"}
        /\ cons' = [cons EXCEPT ![c] = LoopBreak(@)]
        /\ UNCHANGED <<pel, hist>>
     \/ /\ cons[c].pc \in WorkerAwaits
        /\ cons' = [cons EXCEPT ![c] = [@ EXCEPT !.pc = "cancelled", !.i = 0,
                                                  !.err = ""]]
        /\ hist' = [hist EXCEPT ![MsgId(c)].out = "cancelled"]
        /\ UNCHANGED pel
     \/ /\ cons[c].pc = "ack"
        /\ \E sent \in BOOLEAN :
             /\ pel' = IF sent THEN XAck(MsgId(c)) ELSE pel
             /\ hist' = DropRest(
                  [hist EXCEPT ![MsgId(c)] =
                     [@ EXCEPT !.fin = IF sent THEN "finished" ELSE "cancelled",
                               !.acks = @ + Cardinality(pel \ pel')]],
                  c, "dropped")
        /\ cons' = [cons EXCEPT ![c] = LoopBreak(@)]
  /\ UNCHANGED <<idle, api, store, ttl, stream, grp, last, req, prod, faults,
                 ticks, served, created>>

\* _process_message: the finally clause under a cancellation.  After XACK the
\* CancelledError goes on to run()'s loop, which breaks.  If XACK raises, its
\* error replaces the CancelledError: run()'s `except Exception` clause
\* handles it, sleeps, and the loop goes on.
AckCancelled(c) ==
  /\ cons[c].pc = "cancelled"
  /\ \/ /\ pel' = XAck(MsgId(c))
        /\ hist' = DropRest(
             [hist EXCEPT ![MsgId(c)] =
                [@ EXCEPT !.fin = "finished",
                          !.acks = @ + Cardinality(pel \ pel')]],
             c, "dropped")
        /\ cons' = [cons EXCEPT ![c] = LoopBreak(@)]
        /\ UNCHANGED faults
     \/ /\ CanFault
        /\ faults' = faults + 1
        /\ hist' = DropRest([hist EXCEPT ![MsgId(c)].fin = "ack_raised"],
                            c, "dropped")
        /\ cons' = [cons EXCEPT ![c] = Loop(@)]
        /\ UNCHANGED pel
  /\ UNCHANGED <<idle, api, store, ttl, stream, grp, last, req, prod, ticks,
                 served, created>>

\* the system with cancellations of the consumers' tasks
CancelNext ==
  \/ Next
  \/ \E c \in Consumers : Cancel(c)
  \/ \E c \in Consumers : AckCancelled(c)
SpecCancel == LiveInit /\ [][CancelNext]_vars

\* C37: a consumer cancelled during a worker run acknowledges the message in
\* hand and leaves its loop, and neither the cancellation nor the exit
\* changes the task's record
C37_CancelledAcksAndExits ==
  [][\A c \in Consumers :
       /\ (cons[c].pc \in WorkerAwaits /\ cons'[c].pc = "cancelled")
            => store' = store
       /\ (cons[c].pc = "cancelled" /\ cons'[c] # cons[c])
            => /\ <<MsgId(c), c>> \notin pel'
               /\ cons'[c].pc = "stopped"
               /\ pel' \subseteq pel
               /\ store' = store]_vars

\* C38: stop() always ends the loop: a consumer on which stop() was called,
\* before its loop started or while it loops, starts no new poll cycle: from
\* the cycle it is in, if any, run() returns
C38_StopAlwaysExits ==
  [][\A c \in Consumers :
       cons[c].asked /\ cons[c].pc # "poll" => cons'[c].pc # "poll"]_vars

\* the worker class get_worker instantiates for the message consumer c has
\* in hand, by the name it is registered under, and the payload it is given
WorkerClass(c) == Msg(c).stream
WorkerPayload(c) == JsonLoads(Msg(c).entry.payload)

\* C39: the worker a consumer runs for a message matches the task's record
\* as get() reads it: it is the worker registered for the record's task_type
\* and its payload is the record's payload
C39_WorkerMatchesRecord ==
  \A c \in Consumers :
    InRun(c) /\ Get(MsgTask(c)) \notin {NotFound, GetRaises}
      => /\ WorkerClass(c) = Get(MsgTask(c)).task_type
         /\ WorkerPayload(c) = Get(MsgTask(c)).payload

\* the handler of request r got past naming its task type: submit() was called
Submitted(r) == prod[r] \notin {"new", "raised"}

\* C40: the task types that can be submitted are the task types with a
\* registered worker: a request that was submitted has a type with a worker,
\* and a request for a type with a worker is submitted (no handler raises
\* while no Redis call has failed) and, once it has returned and before any
\* expiry, its record is read back
C40_SubmittableIsRegistered ==
  \A r \in Requests :
    /\ Submitted(r) => req[r].task_type \in RegisteredTypes
    /\ req[r].task_type \in RegisteredTypes /\ faults = 0
         => /\ prod[r] # "raised"
            /\ prod[r] = "returned" /\ ticks = 0
                 => Get(req[r].task_id) \notin {NotFound, GetRaises}

====
